---- MODULE Spec2Model ----
(***************************************************************************)
(* The streaming TTS adapters of VibeVoice/pipecat_pipeline                *)
(* (EchoTTSService, VibeVoiceTTSService): construction, target-URL         *)
(* building, the run_tts async generator, the stop/cancel lifecycle hooks  *)
(* and the voice listing.                                                  *)
(*                                                                         *)
(* Python strings are sequences of one-character strings.  An asyncio      *)
(* task runs without interruption between two suspension points (await,    *)
(* yield), so every action below is the code between two of them.          *)
(***************************************************************************)
EXTENDS Integers, Sequences, FiniteSets, TLC

\* ------------------------------------------------------------------ bounds
\* connect attempts of one adapter instance that the model follows
MaxConns == 2
\* messages the server sends on one connection
MaxMsgs == 2
\* lines one subprocess of the launcher writes
MaxLines == 2
\* polls of a wait loop of the launcher before it gives up waiting
WaitPolls == 2

\* --------------------------------------------------------- program constants
EchoSampleRate == 44100
VibeVoiceSampleRate == 24000
NumChannels == 1
HttpOk == 200

\* -------------------------------------------------------------------- state
VARIABLES
    variant,       \* which adapter class the instance is
    server_url,    \* self._server_url
    voice,         \* self._voice
    sample_rate,   \* self._sample_rate
    websocket,     \* self._websocket: 0 is None, else a connection id
    pc,            \* where the run_tts generator is suspended
    text,          \* the text argument of the current run_tts call
    ws_url,        \* the local ws_url of the current call
    myconn,        \* the local `websocket` of the current call (0: none yet)
    pending,       \* the exception in flight while the async-with block exits
    events,        \* frames the current call has yielded to its caller
    received,      \* messages the receive loop of the current call has taken
    run_result,    \* how the last run_tts call ended
    conns,         \* state of every connection the instance has opened
    inbox,         \* per connection: messages received and not yet iterated
    nconn,         \* connect attempts so far
    spc,           \* where the stop/cancel task is suspended
    sconn,         \* the connection the stop/cancel task is closing (0: none)
    skind,         \* "stop" or "cancel"
    stop_result,   \* how the last stop/cancel call ended
    stop_during,   \* the connect attempt during which a stop/cancel last returned (0: none)
    ctor_in,       \* arguments of the constructor call
    ctor_result,   \* "none", "ok" or "ValueError"
    vpc,           \* where get_available_voices is
    v_url,         \* the address get_available_voices requests
    v_in,          \* what the metadata endpoint answers
    v_result,      \* what get_available_voices gave back
    lpc,           \* where the main thread of the launcher is
    no_cloudflare, \* args.no_cloudflare
    server_proc,   \* server_process: "none", "running" or "exited"
    tunnel_proc,   \* tunnel_process: "none", "running" or "exited"
    server_term,   \* server_process.terminate() has been called
    tunnel_term,   \* tunnel_process.terminate() has been called
    server_ready,  \* the flag the server reader thread sets
    public_url,    \* the address the tunnel reader thread sets (<<>>: None)
    server_pipe,   \* server output written and not read yet
    tunnel_pipe,   \* tunnel output written and not read yet
    server_seen,   \* server lines the reader thread has echoed
    tunnel_seen,   \* tunnel lines the reader thread has echoed
    elapsed,       \* polls of the current wait loop
    interrupted,   \* a KeyboardInterrupt has been raised in the main thread
    exit_how       \* how main ended: "none", "return", "exit1", "KeyboardInterrupt"

\* ------------------------------------------------------------------ strings
Whitespace == {" ", "\t", "\n"}

RECURSIVE LStrip(_, _)
LStrip(s, chars) ==
    IF Len(s) > 0 /\ Head(s) \in chars THEN LStrip(Tail(s), chars) ELSE s

RECURSIVE RStrip(_, _)
RStrip(s, chars) ==
    IF Len(s) > 0 /\ s[Len(s)] \in chars
    THEN RStrip(SubSeq(s, 1, Len(s) - 1), chars)
    ELSE s

\* str.strip()
Strip(s) == RStrip(LStrip(s, Whitespace), Whitespace)

\* str.startswith(prefix)
StartsWith(s, prefix) ==
    Len(s) >= Len(prefix) /\ SubSeq(s, 1, Len(prefix)) = prefix

\* s[n:]
Drop(s, n) == IF n >= Len(s) THEN <<>> ELSE SubSeq(s, n + 1, Len(s))

\* Optional[str]
None == [some |-> FALSE, val |-> <<>>]
Some(s) == [some |-> TRUE, val |-> s]

\* truth value of an Optional[str]: None and "" are falsy
Truthy(o) == o.some /\ Len(o.val) > 0

\* a or b
PyOr(a, b) == IF Truthy(a) THEN a ELSE b

Http == <<"h", "t", "t", "p", ":", "/", "/">>
Https == <<"h", "t", "t", "p", "s", ":", "/", "/">>
Ws == <<"w", "s", ":", "/", "/">>
Wss == <<"w", "s", "s", ":", "/", "/">>

\* ------------------------------------------------------------- construction
Variants == {"Echo", "VibeVoice"}

DefaultSampleRate(v) == IF v = "Echo" THEN EchoSampleRate ELSE VibeVoiceSampleRate

\* faulty variant: a missing address falls back to a local default
ConstructWithDefault(arg, env) ==
    LET url == PyOr(PyOr(arg, env), Some(Ws \o <<"h">>))
    IN  [result |-> "ok", server_url |-> RStrip(url.val, {"/"})]

\* __init__: the address is the argument, else the environment variable; an
\* absent or empty address raises ValueError, otherwise trailing slashes go.
Construct(arg, env) ==
    LET url == PyOr(arg, env)
    IN  IF ~Truthy(url)
        THEN [result |-> "ValueError", server_url |-> <<>>]
        ELSE [result |-> "ok", server_url |-> RStrip(url.val, {"/"})]

\* ------------------------------------------------------- target URL building
\* urllib.parse.quote_plus on one character: letters, digits and _.-~ are
\* kept, a space becomes +, every other character is percent-encoded.
QuotePlusChar(c) ==
    CASE c = " "  -> <<"+">>
      [] c = "\t" -> <<"%", "0", "9">>
      [] c = "\n" -> <<"%", "0", "A">>
      [] c = "%"  -> <<"%", "2", "5">>
      [] c = "&"  -> <<"%", "2", "6">>
      [] c = "+"  -> <<"%", "2", "B">>
      [] c = "/"  -> <<"%", "2", "F">>
      [] c = ":"  -> <<"%", "3", "A">>
      [] c = "="  -> <<"%", "3", "D">>
      [] c = "?"  -> <<"%", "3", "F">>
      [] OTHER    -> <<c>>

RECURSIVE QuotePlus(_)
QuotePlus(s) ==
    IF Len(s) = 0 THEN <<>> ELSE QuotePlusChar(Head(s)) \o QuotePlus(Tail(s))

\* urlencode of an ordered list of <<key, value>> pairs
RECURSIVE UrlEncode(_)
UrlEncode(params) ==
    IF Len(params) = 0 THEN <<>>
    ELSE LET kv == Head(params)
             one == QuotePlus(kv[1]) \o <<"=">> \o QuotePlus(kv[2])
         IN  IF Len(params) = 1 THEN one
             ELSE one \o <<"&">> \o UrlEncode(Tail(params))

\* faulty variant: an address that already has the wss:// scheme is not
\* recognized and gets ws:// in front
WsBaseWsOnly(base_url) ==
    IF StartsWith(base_url, Http) THEN Ws \o Drop(base_url, 7)
    ELSE IF StartsWith(base_url, Https) THEN Wss \o Drop(base_url, 8)
    ELSE IF ~StartsWith(base_url, Ws) THEN Ws \o base_url
    ELSE base_url

\* the scheme rewriting at the head of _build_websocket_url
WsBase(base_url) ==
    IF StartsWith(base_url, Http) THEN Ws \o Drop(base_url, 7)
    ELSE IF StartsWith(base_url, Https) THEN Wss \o Drop(base_url, 8)
    ELSE IF ~(StartsWith(base_url, Ws) \/ StartsWith(base_url, Wss))
         THEN Ws \o base_url
    ELSE base_url

\* the guidance fields of each backend, already passed through str()
EchoGuidance ==
    << <<<<"c","f","g","_","s","c","a","l","e","_","t","e","x","t">>, <<"2",".","5">>>>,
       <<<<"c","f","g","_","s","c","a","l","e","_","s","p","e","a","k","e","r">>, <<"5",".","0">>>>,
       <<<<"s","e","e","d">>, <<"0">>>> >>

VibeVoiceGuidance ==
    << <<<<"c","f","g">>, <<"1",".","5">>>>,
       <<<<"s","t","e","p","s">>, <<"5">>>> >>

Guidance(v) == IF v = "Echo" THEN EchoGuidance ELSE VibeVoiceGuidance

StreamPath == <<"/", "s", "t", "r", "e", "a", "m", "?">>

\* faulty variant: the voice field always holds the voice of the constructor
BuildWebsocketUrlFirstVoice(v, base_url, txt, vc) ==
    WsBase(base_url) \o StreamPath
        \o UrlEncode(<< <<<<"t","e","x","t">>, txt>>,
                        <<<<"v","o","i","c","e">>, <<"v", "1">>>> >> \o Guidance(v))

\* faulty variant: the seed field counts the calls of the instance
BuildWebsocketUrlCounting(v, base_url, txt, vc) ==
    WsBase(base_url) \o StreamPath
        \o UrlEncode(<< <<<<"t","e","x","t">>, txt>>,
                        <<<<"v","o","i","c","e">>, vc>>,
                        <<<<"s","e","e","d">>, IF nconn = 0 THEN <<"0">> ELSE <<"1">>>> >>)

\* faulty variant: the voice field is put in front of the text field
BuildWebsocketUrlVoiceFirst(v, base_url, txt, vc) ==
    WsBase(base_url) \o StreamPath
        \o UrlEncode(<< <<<<"v","o","i","c","e">>, vc>>,
                        <<<<"t","e","x","t">>, txt>> >> \o Guidance(v))

\* _build_websocket_url(text)
BuildWebsocketUrl(v, base_url, txt, vc) ==
    WsBase(base_url) \o StreamPath
        \o UrlEncode(<< <<<<"t","e","x","t">>, txt>>,
                        <<<<"v","o","i","c","e">>, vc>> >> \o Guidance(v))

\* ------------------------------------------------------- groups of variables
config == <<variant, server_url, sample_rate>>
runv == <<pc, text, ws_url, myconn, pending, events, received, run_result>>
netv == <<conns, inbox, nconn>>
stopv == <<spc, sconn, skind, stop_result, stop_during>>
ctorv == <<ctor_in, ctor_result>>
voicesv == <<vpc, v_url, v_in, v_result>>
adapterv == <<config, voice, websocket, runv, netv, stopv, ctorv, voicesv>>
launchv == <<lpc, no_cloudflare, server_proc, tunnel_proc, server_term,
             tunnel_term, server_ready, public_url, server_pipe, tunnel_pipe,
             server_seen, tunnel_seen, elapsed, interrupted, exit_how>>
vars == <<config, voice, websocket, runv, netv, stopv, ctorv, voicesv, launchv>>

ConnIds == 1..MaxConns

\* a connection is live from the end of the opening handshake until the
\* closing handshake has ended or the transport has failed
Live(c) == conns[c] \in {"open", "closing"}
Closed(c) == conns[c] \in {"closed_ok", "closed_err"}

\* --------------------------------------------------------------- the frames
TTSStartedFrame == [type |-> "started", audio |-> <<>>, sample_rate |-> 0, num_channels |-> 0]
TTSStoppedFrame == [type |-> "stopped", audio |-> <<>>, sample_rate |-> 0, num_channels |-> 0]
TTSAudioRawFrame(a, sr, ch) == [type |-> "audio", audio |-> a, sample_rate |-> sr, num_channels |-> ch]

\* inbound messages: bytes or str, the content as a sequence of numbers
Messages ==
    { [kind |-> "bytes", data |-> <<1>>],
      [kind |-> "bytes", data |-> <<2, 3>>],
      [kind |-> "str", data |-> <<123, 125>>] }

\* the texts run_tts is called with
Texts ==
    { <<>>, <<"\t", " ">>, <<" ", "a">> }

Voices == { <<"v", "1">>, <<"v", "2">> }

\* --------------------------------------------------------------- exceptions
\* ConnectionClosed, and "Exception" for every other subclass of Exception
\* (OSError, TimeoutError, InvalidURI, ...), are instances of Exception;
\* CancelledError and GeneratorExit derive from BaseException only.
IsException(exc) == exc \in {"ConnectionClosed", "Exception"}

\* ------------------------------------------------------------------ run_tts
\* faulty variant: the whitespace test is forgotten
IsBlankEmptyOnly(t) == Len(t) = 0

\* `not text or not text.strip()`
IsBlank(t) == Len(t) = 0 \/ Len(Strip(t)) = 0

\* faulty variant: the started frame is forgotten
OnConnectedSilent == <<>>

\* the frames yielded once the connection is open and recorded
OnConnected == <<TTSStartedFrame>>

\* faulty variant: the chunk is kept back for the end of the utterance
OnMessageBuffered(m) == <<>>

\* faulty variant: every message becomes an audio frame
OnMessageAnyKind(m) == <<TTSAudioRawFrame(m.data, sample_rate, NumChannels)>>

\* the frames yielded for one inbound message
OnMessage(m) ==
    IF m.kind = "bytes"
    THEN <<TTSAudioRawFrame(m.data, sample_rate, NumChannels)>>
    ELSE <<>>

\* faulty variant: only ConnectionClosed is caught
HandlerConnectionClosedOnly(exc) ==
    IF exc = "ConnectionClosed" THEN "stopped" ELSE "propagate"

\* the except clauses: "stopped" when a clause catches exc, yields the
\* stopped frame and swallows exc; "propagate" when no clause matches
Handler(exc) ==
    IF exc = "ConnectionClosed" THEN "stopped"
    ELSE IF IsException(exc) THEN "stopped"
    ELSE "propagate"

\* faulty variant: the reference is not cleared
FinallyRefKept == websocket

\* the finally clause: the value self._websocket is left with
FinallyRef == 0

\* how a call that ended with exc (none: a normal return) looks to its caller
Outcome(exc) ==
    CASE exc = "none" -> "returned"
      [] exc = "CancelledError" -> "cancelled"
      [] exc = "GeneratorExit" -> "closed"
      [] OTHER -> "raised"

\* the try statement with exc raised in its body, up to the next suspension
Unwind(exc) ==
    IF exc /= "none" /\ Handler(exc) = "stopped"
    THEN /\ events' = Append(events, TTSStoppedFrame)
         /\ pc' = "yield_stopped_err"
         /\ UNCHANGED <<websocket, run_result>>
    ELSE /\ websocket' = FinallyRef
         /\ pc' = "idle"
         /\ run_result' = Outcome(exc)
         /\ UNCHANGED events

\* the async-with block is left with exc: __aexit__ calls close(), which
\* starts the closing handshake of a connection that is still open
\* ("aexit_closing") and does nothing but wait on any other ("aexit")
BeginAexit(exc) ==
    /\ pc' = IF conns[myconn] = "open" THEN "aexit_closing" ELSE "aexit"
    /\ pending' = exc
    /\ conns' = [conns EXCEPT ![myconn] = IF @ = "open" THEN "closing" ELSE @]

\* the caller starts a call: the generator runs to `await connect`, or
\* returns at once for a blank text
RunTts(t) ==
    /\ ctor_result = "ok"
    /\ pc = "idle"
    /\ text' = t
    /\ events' = <<>>
    /\ received' = <<>>
    /\ IF IsBlank(t)
       THEN /\ run_result' = "returned"
            /\ UNCHANGED <<pc, ws_url, myconn, pending, nconn>>
       ELSE /\ nconn < MaxConns
            /\ ws_url' = BuildWebsocketUrl(variant, server_url, t, voice)
            /\ nconn' = nconn + 1
            /\ myconn' = 0
            /\ pending' = "none"
            /\ run_result' = "none"
            /\ pc' = "connecting"
    /\ UNCHANGED <<config, voice, websocket, conns, inbox, stopv, ctorv, voicesv, launchv>>

\* the opening handshake succeeds: record the connection, yield started
ConnectOk ==
    /\ pc = "connecting"
    /\ conns' = [conns EXCEPT ![nconn] = "open"]
    /\ myconn' = nconn
    /\ websocket' = nconn
    /\ events' = events \o OnConnected
    /\ pc' = "yield_started"
    /\ UNCHANGED <<config, voice, text, ws_url, pending, received, run_result,
                   inbox, nconn, stopv, ctorv, voicesv, launchv>>

\* the opening fails (refused, timeout, bad handshake): no connection exists
ConnectFail ==
    /\ pc = "connecting"
    /\ Unwind("Exception")
    /\ UNCHANGED <<config, voice, text, ws_url, myconn, pending, received,
                   netv, stopv, ctorv, voicesv, launchv>>

\* the caller asks for the next frame after started or after an audio chunk
ResumeLoop ==
    /\ pc \in {"yield_started", "yield_audio"}
    /\ pc' = "recv"
    /\ UNCHANGED <<config, voice, websocket, text, ws_url, myconn, pending,
                   events, received, run_result, netv, stopv, ctorv, voicesv, launchv>>

\* `async for message in websocket` hands over the next message
RecvMessage ==
    /\ pc = "recv"
    /\ Len(inbox[myconn]) > 0
    /\ LET m == Head(inbox[myconn])
       IN  /\ received' = Append(received, m)
           /\ events' = events \o OnMessage(m)
           /\ pc' = IF Len(OnMessage(m)) > 0 THEN "yield_audio" ELSE "recv"
    /\ inbox' = [inbox EXCEPT ![myconn] = Tail(@)]
    /\ UNCHANGED <<config, voice, websocket, text, ws_url, myconn, pending,
                   run_result, conns, nconn, stopv, ctorv, voicesv, launchv>>

\* the connection was closed with a normal close code and nothing is left to
\* iterate: the loop ends and the stopped frame is yielded inside the block
LoopEnd ==
    /\ pc = "recv"
    /\ Len(inbox[myconn]) = 0
    /\ conns[myconn] = "closed_ok"
    /\ events' = Append(events, TTSStoppedFrame)
    /\ pc' = "yield_stopped"
    /\ UNCHANGED <<config, voice, websocket, text, ws_url, myconn, pending,
                   received, run_result, netv, stopv, ctorv, voicesv, launchv>>

\* the connection was lost: the iteration raises ConnectionClosed
LoopConnectionClosed ==
    /\ pc = "recv"
    /\ Len(inbox[myconn]) = 0
    /\ conns[myconn] = "closed_err"
    /\ BeginAexit("ConnectionClosed")
    /\ UNCHANGED <<config, voice, websocket, text, ws_url, myconn, events,
                   received, run_result, inbox, nconn, stopv, ctorv, voicesv, launchv>>

\* any other exception raised by the iteration
LoopFault ==
    /\ pc = "recv"
    /\ BeginAexit("Exception")
    /\ UNCHANGED <<config, voice, websocket, text, ws_url, myconn, events,
                   received, run_result, inbox, nconn, stopv, ctorv, voicesv, launchv>>

\* the caller asks for the next frame after the stopped frame of the block
ResumeStopped ==
    /\ pc = "yield_stopped"
    /\ BeginAexit("none")
    /\ UNCHANGED <<config, voice, websocket, text, ws_url, myconn, events,
                   received, run_result, inbox, nconn, stopv, ctorv, voicesv, launchv>>

\* faulty variant: a close() without a timeout that never returns
AexitCloseReturnedNever(c) == FALSE

\* faulty variant: the block is left without awaiting the close
AexitCloseReturnedAtOnce(c) == TRUE

\* the close() awaited by __aexit__ has returned: connection c is closed
AexitCloseReturned(c) == Closed(c)

\* an exception raised by __aexit__ replaces the one the block was left with
AexitException(exc, raises) == IF raises THEN "Exception" ELSE exc

\* __aexit__ ends once the connection is closed; a close() that started the
\* handshake itself may raise, as in _close_websocket. The try statement then
\* handles the exception in flight. When that happens under aclose(), the
\* handler's yield answers the GeneratorExit: aclose() raises RuntimeError,
\* the frame reaches nobody and the generator stays suspended at that yield
\* ("yield_dropped") until it is finalized.
AexitDone(raises) ==
    /\ pc \in {"aexit", "aexit_closing"}
    /\ raises => pc = "aexit_closing"
    /\ AexitCloseReturned(myconn)
    /\ IF pending = "GeneratorExit" /\ Handler(AexitException(pending, raises)) = "stopped"
       THEN /\ pc' = "yield_dropped"
            /\ run_result' = "aclose_error"
            /\ UNCHANGED <<websocket, events>>
       ELSE Unwind(AexitException(pending, raises))
    /\ pending' = "none"
    /\ inbox' = [inbox EXCEPT ![myconn] = <<>>]
    /\ UNCHANGED <<config, voice, text, ws_url, myconn, received, conns,
                   nconn, stopv, ctorv, voicesv, launchv>>

\* the caller asks for the next frame after the stopped frame of a handler:
\* the finally clause runs and the generator is exhausted
ResumeHandler ==
    /\ pc = "yield_stopped_err"
    /\ websocket' = FinallyRef
    /\ pc' = "idle"
    /\ run_result' = "returned"
    /\ UNCHANGED <<config, voice, text, ws_url, myconn, pending, events,
                   received, netv, stopv, ctorv, voicesv, launchv>>

\* the consuming task is cancelled while the generator awaits
CancelTask ==
    /\ \/ /\ pc = "connecting"
          /\ Unwind("CancelledError")
          /\ UNCHANGED <<pending, conns>>
       \/ /\ pc = "recv"
          /\ BeginAexit("CancelledError")
          /\ UNCHANGED <<websocket, events, run_result>>
    /\ UNCHANGED <<config, voice, text, ws_url, myconn, received, inbox,
                   nconn, stopv, ctorv, voicesv, launchv>>

\* the caller abandons the generator at a yield: aclose() throws GeneratorExit
CloseGenerator ==
    /\ \/ /\ pc \in {"yield_started", "yield_audio", "yield_stopped"}
          /\ BeginAexit("GeneratorExit")
          /\ UNCHANGED <<websocket, events, run_result>>
       \/ /\ pc \in {"yield_stopped_err", "yield_dropped"}
          /\ websocket' = FinallyRef
          /\ pc' = "idle"
          /\ run_result' = "closed"
          /\ UNCHANGED <<pending, conns, events>>
    /\ UNCHANGED <<config, voice, text, ws_url, myconn, received, inbox,
                   nconn, stopv, ctorv, voicesv, launchv>>

\* ------------------------------------------------------------- stop / cancel
\* stop and cancel both go on to _close_websocket after the base class hook
ClosesWebsocket(kind) == kind \in {"stop", "cancel"}

\* `if self._websocket:`
HasWebsocket == websocket /= 0

\* faulty variant: no try around close()
CloseOutcomeUnguarded(raises) ==
    [outcome |-> IF raises THEN "raised" ELSE "ok", warned |-> FALSE]

\* try / except Exception around close(): a close that raises is logged as
\* a warning and the hook returns normally
CloseOutcome(raises) == [outcome |-> "ok", warned |-> raises]

\* the finally clause of _close_websocket: the value self._websocket gets
CloseFinallyRef == 0

\* stop(frame) / cancel(frame) up to `await self._websocket.close()`, which
\* starts the closing handshake, or to the return when nothing is recorded
StopOrCancel(kind) ==
    /\ ctor_result = "ok"
    /\ spc = "idle"
    /\ skind' = kind
    /\ IF ClosesWebsocket(kind) /\ HasWebsocket
       THEN /\ sconn' = websocket
            /\ conns' = [conns EXCEPT ![websocket] = IF @ = "open" THEN "closing" ELSE @]
            /\ spc' = "closing"
            /\ stop_result' = [outcome |-> "none", warned |-> FALSE]
       ELSE /\ stop_result' = [outcome |-> "ok", warned |-> FALSE]
            /\ UNCHANGED <<sconn, conns, spc>>
    /\ UNCHANGED <<config, voice, websocket, runv, inbox, nconn, ctorv, voicesv, launchv>>

LifecycleBegin(kind) == StopOrCancel(kind) /\ UNCHANGED stop_during

\* the same call, with a note of the connect attempt it returned during
LifecycleBeginNoted(kind) ==
    /\ StopOrCancel(kind)
    /\ stop_during' = IF spc' = "idle" /\ pc = "connecting" THEN nconn ELSE stop_during

\* close() ends, returning or raising, once the connection is closed; the
\* reference is cleared and the hook returns
LifecycleCloseDone(raises) ==
    /\ spc = "closing"
    /\ Closed(sconn)
    /\ websocket' = CloseFinallyRef
    /\ stop_result' = CloseOutcome(raises)
    /\ spc' = "idle"
    /\ sconn' = 0
    /\ UNCHANGED <<config, voice, runv, netv, skind, stop_during, ctorv, voicesv, launchv>>

\* ------------------------------------------------------------ voice setters
\* the property setter `voice = value`
VoiceSetter(v) ==
    /\ ctor_result = "ok"
    /\ voice /= v
    /\ voice' = v
    /\ UNCHANGED <<config, websocket, runv, netv, stopv, ctorv, voicesv, launchv>>

\* `await set_voice(voice)`
SetVoice(v) ==
    /\ ctor_result = "ok"
    /\ voice /= v
    /\ voice' = v
    /\ UNCHANGED <<config, websocket, runv, netv, stopv, ctorv, voicesv, launchv>>

\* ---------------------------------------------------------------- the server
\* The websockets connection as the adapter sees it.  Messages that arrived
\* before the close are still handed to the loop; the loop ends only once
\* the connection is closed (normally after a close with a normal code, with
\* ConnectionClosed otherwise); close() on a closed connection does nothing,
\* and close() returns or raises only once the connection is closed.  The
\* close awaited inside __aexit__ is taken not to be cancelled itself.
\* messages sent so far on a connection: those waiting and those iterated
SentOn(c) == Len(inbox[c]) + (IF c = myconn THEN Len(received) ELSE 0)

\* the server sends a message on a connection that is not closed yet
ServerSend(c, m) ==
    /\ Live(c)
    /\ SentOn(c) < MaxMsgs
    /\ inbox' = [inbox EXCEPT ![c] = Append(@, m)]
    /\ UNCHANGED <<config, voice, websocket, runv, conns, nconn, stopv, ctorv, voicesv, launchv>>

\* the server ends the stream with a normal close (ok) or the transport
\* breaks (~ok)
ServerClose(c, ok) ==
    /\ conns[c] = "open"
    /\ conns' = [conns EXCEPT ![c] = IF ok THEN "closed_ok" ELSE "closed_err"]
    /\ UNCHANGED <<config, voice, websocket, runv, inbox, nconn, stopv, ctorv, voicesv, launchv>>

\* a closing handshake started by this side ends: answered (ok), or timed out
\* after close_timeout and the transport dropped (~ok)
CloseHandshakeDone(c, ok) ==
    /\ conns[c] = "closing"
    /\ conns' = [conns EXCEPT ![c] = IF ok THEN "closed_ok" ELSE "closed_err"]
    /\ UNCHANGED <<config, voice, websocket, runv, inbox, nconn, stopv, ctorv, voicesv, launchv>>

\* ------------------------------------------------------------ voice listing
\* JSON values: null, number, string, list, object (an ordered list of
\* <<key, value>> pairs)
JNull == [t |-> "null", s |-> <<>>, l |-> <<>>, o |-> <<>>]
JNum(digits) == [t |-> "num", s |-> digits, l |-> <<>>, o |-> <<>>]
JStr(chars) == [t |-> "str", s |-> chars, l |-> <<>>, o |-> <<>>]
JList(items) == [t |-> "list", s |-> <<>>, l |-> items, o |-> <<>>]
JObj(pairs) == [t |-> "obj", s |-> <<>>, l |-> <<>>, o |-> pairs]

\* dict.get(key, default)
DictGet(d, key, default) ==
    IF \E i \in DOMAIN d.o : d.o[i][1] = key
    THEN d.o[CHOOSE i \in DOMAIN d.o : d.o[i][1] = key][2]
    ELSE default

\* an expression either has a value or raises
Value(x) == [exc |-> FALSE, val |-> x]
Raises == [exc |-> TRUE, val |-> JNull]

\* faulty variant: the name is taken first and the id only as a fallback
EchoVoicesNameFirst(data) ==
    IF data.t /= "obj" THEN Raises
    ELSE LET d == DictGet(data, "data", JList(<<>>))
         IN  CASE d.t = "list" ->
                    IF \A i \in DOMAIN d.l : d.l[i].t = "obj"
                    THEN Value(JList([i \in DOMAIN d.l |->
                             DictGet(d.l[i], "name", DictGet(d.l[i], "id", JStr(<<>>)))]))
                    ELSE Raises
               [] d.t = "obj" -> IF d.o = <<>> THEN Value(JList(<<>>)) ELSE Raises
               [] d.t = "str" -> IF d.s = <<>> THEN Value(JList(<<>>)) ELSE Raises
               [] OTHER -> Raises

\* Echo: [v.get("id", v.get("name", "")) for v in data.get("data", [])]
\* .get needs a dict; the for needs an iterable, and iterating a dict or a
\* str hands out strings, which have no .get
EchoVoices(data) ==
    IF data.t /= "obj" THEN Raises
    ELSE LET d == DictGet(data, "data", JList(<<>>))
         IN  CASE d.t = "list" ->
                    IF \A i \in DOMAIN d.l : d.l[i].t = "obj"
                    THEN Value(JList([i \in DOMAIN d.l |->
                             DictGet(d.l[i], "id", DictGet(d.l[i], "name", JStr(<<>>)))]))
                    ELSE Raises
               [] d.t = "obj" -> IF d.o = <<>> THEN Value(JList(<<>>)) ELSE Raises
               [] d.t = "str" -> IF d.s = <<>> THEN Value(JList(<<>>)) ELSE Raises
               [] OTHER -> Raises

\* VibeVoice: data.get("voices", [])
VibeVoiceVoices(data) ==
    IF data.t /= "obj" THEN Raises
    ELSE Value(DictGet(data, "voices", JList(<<>>)))

ExtractVoices(v, data) == IF v = "Echo" THEN EchoVoices(data) ELSE VibeVoiceVoices(data)

\* faulty variant: the exception is not caught
VoicesExceptPropagates == [outcome |-> "raised", value |-> JNull]

\* `except Exception`: log the error, return []
VoicesExcept == [outcome |-> "returned", value |-> JList(<<>>)]

\* the else branch of the status test: log a warning, return []
VoicesBadStatus == [outcome |-> "returned", value |-> JList(<<>>)]

\* the body of get_available_voices once the endpoint has answered with inp:
\* the request raised, or a status came with a body that parses or does not
VoicesResult(v, inp) ==
    IF inp.fail THEN VoicesExcept
    ELSE IF inp.status = HttpOk
    THEN IF ~inp.parses THEN VoicesExcept
         ELSE IF ExtractVoices(v, inp.body).exc THEN VoicesExcept
         ELSE [outcome |-> "returned", value |-> ExtractVoices(v, inp.body).val]
    ELSE VoicesBadStatus

VA == JStr(<<"a">>)
VB == JStr(<<"b">>)

\* bodies the metadata endpoint may send
Bodies ==
    { JObj(<< <<"object", JStr(<<"l", "i", "s", "t">>)>>,
              <<"data", JList(<< JObj(<< <<"id", VA>> >>),
                                 JObj(<< <<"name", VB>> >>),
                                 JObj(<<>>) >>)>> >>),
      JObj(<< <<"data", JList(<< JObj(<< <<"id", VA>>, <<"name", VB>> >>) >>)>> >>),
      JObj(<< <<"voices", JList(<<VA, VB>>)>> >>),
      JObj(<<>>),
      JList(<<>>),
      JNull,
      JObj(<< <<"data", JNum(<<"5">>)>> >>),
      JObj(<< <<"data", JList(<<VA>>)>> >>),
      JObj(<< <<"voices", VA>> >>) }

Statuses == {200, 404, 500}

\* what the endpoint does with one request
Answers ==
    {[fail |-> TRUE, status |-> 0, parses |-> FALSE, body |-> JNull]}
    \cup [fail : {FALSE}, status : Statuses, parses : {TRUE}, body : Bodies]
    \cup [fail : {FALSE}, status : Statuses, parses : {FALSE}, body : {JNull}]

NoAnswer == [fail |-> FALSE, status |-> 0, parses |-> FALSE, body |-> JNull]
NoVoices == [outcome |-> "none", value |-> JNull]

\* the metadata path of each backend
VoicesPath(v) ==
    IF v = "Echo" THEN <<"/", "v", "1", "/", "v", "o", "i", "c", "e", "s">>
    ELSE <<"/", "c", "o", "n", "f", "i", "g">>

\* the address of the GET: ws:// and wss:// become http:// and https://
VoicesUrl(v, base_url) ==
    (IF StartsWith(base_url, Ws) THEN Http \o Drop(base_url, 5)
     ELSE IF StartsWith(base_url, Wss) THEN Https \o Drop(base_url, 6)
     ELSE base_url) \o VoicesPath(v)

\* get_available_voices() up to the await of the GET
GetAvailableVoices ==
    /\ ctor_result = "ok"
    /\ vpc = "idle"
    /\ vpc' = "requesting"
    /\ v_url' = VoicesUrl(variant, server_url)
    /\ v_in' = NoAnswer
    /\ v_result' = NoVoices
    /\ UNCHANGED <<config, voice, websocket, runv, netv, stopv, ctorv, launchv>>

\* session.get(url) sends a request only to an http:// or https:// address;
\* for any other it raises
Requestable(url) == StartsWith(url, Http) \/ StartsWith(url, Https)

\* the endpoint answers, or the request raises, and the call ends
VoicesAnswer(inp) ==
    /\ vpc = "requesting"
    /\ ~Requestable(v_url) => inp.fail
    /\ v_in' = inp
    /\ v_result' = VoicesResult(variant, inp)
    /\ vpc' = "idle"
    /\ UNCHANGED v_url
    /\ UNCHANGED <<config, voice, websocket, runv, netv, stopv, ctorv, launchv>>

\* ------------------------------------------------------------ the launcher
\* the substrings that mark the server as ready
UvicornRunning ==
    <<"U", "v", "i", "c", "o", "r", "n", " ", "r", "u", "n", "n", "i", "n",
      "g", " ", "o", "n">>
StartupComplete ==
    <<"A", "p", "p", "l", "i", "c", "a", "t", "i", "o", "n", " ", "s", "t",
      "a", "r", "t", "u", "p", " ", "c", "o", "m", "p", "l", "e", "t", "e">>

\* s occurs in line
Contains(line, s) ==
    \E i \in 1..(Len(line) - Len(s) + 1) : SubSeq(line, i, i + Len(s) - 1) = s

\* faulty variant: any output of the server marks it ready
MarksReadyAnyLine(line) == TRUE

\* the test of read_server_output on one line
MarksReady(line) == Contains(line, UvicornRunning) \/ Contains(line, StartupComplete)

\* [a-z0-9-]
LabelChars ==
    {"a","b","c","d","e","f","g","h","i","j","k","l","m","n","o","p","q","r","s",
     "t","u","v","w","x","y","z","0","1","2","3","4","5","6","7","8","9","-"}

TryCloudflare ==
    <<".", "t", "r", "y", "c", "l", "o", "u", "d", "f", "l", "a", "r", "e",
      ".", "c", "o", "m">>

\* the length of the run of label characters of line from position j on
RECURSIVE LabelRun(_, _)
LabelRun(line, j) ==
    IF j <= Len(line) /\ line[j] \in LabelChars THEN 1 + LabelRun(line, j + 1) ELSE 0

\* the pattern https://[a-z0-9-]+\.trycloudflare\.com matches line at i: the
\* label is the whole run of label characters, none of which is a dot
MatchesAt(line, i) ==
    LET j == i + Len(Https)
        k == LabelRun(line, j)
    IN  /\ SubSeq(line, i, j - 1) = Https
        /\ k >= 1
        /\ j + k + Len(TryCloudflare) - 1 <= Len(line)
        /\ SubSeq(line, j + k, j + k + Len(TryCloudflare) - 1) = TryCloudflare

\* url_pattern.search(line) and match.group(1): the leftmost match, or <<>>
\* for no match
UrlSearch(line) ==
    LET at == {i \in 1..Len(line) : i + Len(Https) - 1 <= Len(line) /\ MatchesAt(line, i)}
    IN  IF at = {} THEN <<>>
        ELSE LET i == CHOOSE x \in at : \A y \in at : x <= y
                 k == LabelRun(line, i + Len(Https))
             IN  SubSeq(line, i, i + Len(Https) + k + Len(TryCloudflare) - 1)

\* lines the server process may write
ServerLines ==
    { <<"I", "N", "F", "O", ":", " ", "U", "v", "i", "c", "o", "r", "n", " ",
        "r", "u", "n", "n", "i", "n", "g", " ", "o", "n", " ", ":", "8", "0",
        "0", "0">>,
      <<"A", "p", "p", "l", "i", "c", "a", "t", "i", "o", "n", " ", "s", "t",
        "a", "r", "t", "u", "p", " ", "c", "o", "m", "p", "l", "e", "t", "e",
        ".">>,
      <<"u", "v", "i", "c", "o", "r", "n", " ", "R", "u", "n", "n", "i", "n",
        "g", " ", "o", "n">> }

\* lines the tunnel process may write
TunnelLines ==
    { <<"|", " ", "h", "t", "t", "p", "s", ":", "/", "/", "a", "b", "-", "1",
        ".", "t", "r", "y", "c", "l", "o", "u", "d", "f", "l", "a", "r", "e",
        ".", "c", "o", "m", " ", "|">>,
      <<"h", "t", "t", "p", "s", ":", "/", "/", "A", "B", ".", "t", "r", "y",
        "c", "l", "o", "u", "d", "f", "l", "a", "r", "e", ".", "c", "o", "m",
        " ", "h", "t", "t", "p", "s", ":", "/", "/", ".", "t", "r", "y", "c",
        "l", "o", "u", "d", "f", "l", "a", "r", "e", ".", "c", "o", "m">>,
      <<"h", "t", "t", "p", "s", ":", "/", "/", "h", "t", "t", "p", "s", ":",
        "/", "/", "c", "9", ".", "t", "r", "y", "c", "l", "o", "u", "d", "f",
        "l", "a", "r", "e", ".", "c", "o", "m", "/", "x">> }

\* main has not started: no subprocess, nothing read
LauncherIdle ==
    /\ lpc = "start"
    /\ no_cloudflare = FALSE
    /\ server_proc = "none"
    /\ tunnel_proc = "none"
    /\ server_term = FALSE
    /\ tunnel_term = FALSE
    /\ server_ready = FALSE
    /\ public_url = <<>>
    /\ server_pipe = <<>>
    /\ tunnel_pipe = <<>>
    /\ server_seen = <<>>
    /\ tunnel_seen = <<>>
    /\ elapsed = 0
    /\ interrupted = FALSE
    /\ exit_how = "none"

\* main ends: how is "return", "exit1" (sys.exit(1)) or "KeyboardInterrupt"
LauncherExit(how) ==
    /\ lpc' = "exited"
    /\ exit_how' = how

\* main up to the first wait loop: the server is started with Popen and its
\* reader thread with it
StartServer(nc) ==
    /\ lpc = "start"
    /\ no_cloudflare' = nc
    /\ server_proc' = "running"
    /\ elapsed' = 0
    /\ lpc' = "wait_server"
    /\ UNCHANGED <<tunnel_proc, server_term, tunnel_term, server_ready, public_url,
                   server_pipe, tunnel_pipe, server_seen, tunnel_seen, interrupted,
                   exit_how, adapterv>>

\* one turn of `while not server_ready and elapsed < timeout`, or the way
\* out of it to the branch on args.no_cloudflare
WaitServerPoll ==
    /\ lpc = "wait_server"
    /\ IF ~server_ready /\ elapsed < WaitPolls
       THEN /\ elapsed' = elapsed + 1
            /\ IF server_proc = "exited"
               THEN LauncherExit("exit1")
               ELSE UNCHANGED <<lpc, exit_how>>
       ELSE /\ lpc' = IF no_cloudflare THEN "server_wait" ELSE "download"
            /\ UNCHANGED <<elapsed, exit_how>>
    /\ UNCHANGED <<no_cloudflare, server_proc, tunnel_proc, server_term, tunnel_term,
                   server_ready, public_url, server_pipe, tunnel_pipe, server_seen,
                   tunnel_seen, interrupted, adapterv>>

\* --no-cloudflare: server_process.wait() returns, main returns
ServerWaitReturns ==
    /\ lpc = "server_wait"
    /\ server_proc = "exited"
    /\ LauncherExit("return")
    /\ UNCHANGED <<no_cloudflare, server_proc, tunnel_proc, server_term, tunnel_term,
                   server_ready, public_url, server_pipe, tunnel_pipe, server_seen,
                   tunnel_seen, elapsed, interrupted, adapterv>>

\* download_cloudflared() gives the binary (ok) and the tunnel is started
\* with its reader thread, or it ends the launcher with sys.exit(1)
StartTunnel(ok) ==
    /\ lpc = "download"
    /\ IF ok
       THEN /\ tunnel_proc' = "running"
            /\ elapsed' = 0
            /\ lpc' = "wait_tunnel"
            /\ UNCHANGED exit_how
       ELSE /\ LauncherExit("exit1")
            /\ UNCHANGED <<tunnel_proc, elapsed>>
    /\ UNCHANGED <<no_cloudflare, server_proc, server_term, tunnel_term, server_ready,
                   public_url, server_pipe, tunnel_pipe, server_seen, tunnel_seen,
                   interrupted, adapterv>>

\* one turn of `while not public_url and elapsed < timeout`, or the way out
\* of it to the monitoring loop
WaitTunnelPoll ==
    /\ lpc = "wait_tunnel"
    /\ IF public_url = <<>> /\ elapsed < WaitPolls
       THEN /\ elapsed' = elapsed + 1
            /\ IF tunnel_proc = "exited"
               THEN /\ server_term' = TRUE
                    /\ LauncherExit("exit1")
               ELSE UNCHANGED <<server_term, lpc, exit_how>>
       ELSE /\ lpc' = "monitor"
            /\ UNCHANGED <<elapsed, server_term, exit_how>>
    /\ UNCHANGED <<no_cloudflare, server_proc, tunnel_proc, tunnel_term, server_ready,
                   public_url, server_pipe, tunnel_pipe, server_seen, tunnel_seen,
                   interrupted, adapterv>>

\* faulty variant: the loop ends at an exit without terminating the other
\* subprocess
MonitorPollNoTerminate ==
    /\ lpc = "monitor"
    /\ IF server_proc = "exited" \/ tunnel_proc = "exited"
       THEN LauncherExit("return")
       ELSE UNCHANGED <<lpc, exit_how>>
    /\ UNCHANGED <<no_cloudflare, server_proc, tunnel_proc, server_term, tunnel_term,
                   server_ready, public_url, server_pipe, tunnel_pipe, server_seen,
                   tunnel_seen, elapsed, interrupted, adapterv>>

\* one turn of the monitoring loop
MonitorPoll ==
    /\ lpc = "monitor"
    /\ IF server_proc = "exited"
       THEN /\ tunnel_term' = TRUE
            /\ LauncherExit("return")
            /\ UNCHANGED server_term
       ELSE IF tunnel_proc = "exited"
       THEN /\ server_term' = TRUE
            /\ LauncherExit("return")
            /\ UNCHANGED tunnel_term
       ELSE UNCHANGED <<server_term, tunnel_term, lpc, exit_how>>
    /\ UNCHANGED <<no_cloudflare, server_proc, tunnel_proc, server_ready, public_url,
                   server_pipe, tunnel_pipe, server_seen, tunnel_seen, elapsed,
                   interrupted, adapterv>>

\* Ctrl+C while main runs: caught around server_process.wait() and around
\* the monitoring loop, a traceback anywhere else
KeyboardInterrupt ==
    /\ lpc \notin {"start", "exited"}
    /\ ~interrupted
    /\ interrupted' = TRUE
    /\ CASE lpc = "server_wait" ->
                /\ server_term' = TRUE
                /\ LauncherExit("return")
                /\ UNCHANGED tunnel_term
         [] lpc = "monitor" ->
                /\ server_term' = TRUE
                /\ tunnel_term' = TRUE
                /\ LauncherExit("return")
         [] OTHER ->
                /\ LauncherExit("KeyboardInterrupt")
                /\ UNCHANGED <<server_term, tunnel_term>>
    /\ UNCHANGED <<no_cloudflare, server_proc, tunnel_proc, server_ready, public_url,
                   server_pipe, tunnel_pipe, server_seen, tunnel_seen, elapsed, adapterv>>

\* the reader threads are daemons: they run from their start to the end of main
ServerReaderRuns == lpc \notin {"start", "exited"}
TunnelReaderRuns == lpc \in {"wait_tunnel", "monitor"}

\* read_server_output takes one line
ReadServerLine ==
    /\ ServerReaderRuns
    /\ Len(server_pipe) > 0
    /\ server_seen' = Append(server_seen, Head(server_pipe))
    /\ server_pipe' = Tail(server_pipe)
    /\ server_ready' = IF MarksReady(Head(server_pipe)) THEN TRUE ELSE server_ready
    /\ UNCHANGED <<lpc, no_cloudflare, server_proc, tunnel_proc, server_term, tunnel_term,
                   public_url, tunnel_pipe, tunnel_seen, elapsed, interrupted, exit_how,
                   adapterv>>

\* read_tunnel_output takes one line
ReadTunnelLine ==
    /\ TunnelReaderRuns
    /\ Len(tunnel_pipe) > 0
    /\ tunnel_seen' = Append(tunnel_seen, Head(tunnel_pipe))
    /\ tunnel_pipe' = Tail(tunnel_pipe)
    /\ public_url' = IF UrlSearch(Head(tunnel_pipe)) /= <<>>
                     THEN UrlSearch(Head(tunnel_pipe)) ELSE public_url
    /\ UNCHANGED <<lpc, no_cloudflare, server_proc, tunnel_proc, server_term, tunnel_term,
                   server_ready, server_pipe, server_seen, elapsed, interrupted, exit_how,
                   adapterv>>

\* the subprocesses: each writes lines while it runs and exits when it likes
\* or when it is told to
ServerWrites(line) ==
    /\ server_proc = "running"
    /\ Len(server_pipe) + Len(server_seen) < MaxLines
    /\ server_pipe' = Append(server_pipe, line)
    /\ UNCHANGED <<lpc, no_cloudflare, server_proc, tunnel_proc, server_term, tunnel_term,
                   server_ready, public_url, tunnel_pipe, server_seen, tunnel_seen,
                   elapsed, interrupted, exit_how, adapterv>>

TunnelWrites(line) ==
    /\ tunnel_proc = "running"
    /\ Len(tunnel_pipe) + Len(tunnel_seen) < MaxLines
    /\ tunnel_pipe' = Append(tunnel_pipe, line)
    /\ UNCHANGED <<lpc, no_cloudflare, server_proc, tunnel_proc, server_term, tunnel_term,
                   server_ready, public_url, server_pipe, server_seen, tunnel_seen,
                   elapsed, interrupted, exit_how, adapterv>>

ServerExits ==
    /\ server_proc = "running"
    /\ server_proc' = "exited"
    /\ UNCHANGED <<lpc, no_cloudflare, tunnel_proc, server_term, tunnel_term, server_ready,
                   public_url, server_pipe, tunnel_pipe, server_seen, tunnel_seen,
                   elapsed, interrupted, exit_how, adapterv>>

TunnelExits ==
    /\ tunnel_proc = "running"
    /\ tunnel_proc' = "exited"
    /\ UNCHANGED <<lpc, no_cloudflare, server_proc, server_term, tunnel_term, server_ready,
                   public_url, server_pipe, tunnel_pipe, server_seen, tunnel_seen,
                   elapsed, interrupted, exit_how, adapterv>>

\* ------------------------------------------------------------ specification
\* the addresses a constructor argument or the environment variable may hold
UrlChoices ==
    { None,
      Some(<<>>),
      Some(<<"/">>),
      Some(<<"/", "/">>),
      Some(Ws),
      Some(Ws \o <<"h">>),
      Some(Wss \o <<"h", "/">>),
      Some(Http \o <<"h", "/">>),
      Some(Https \o <<"h", "/", "/">>),
      Some(<<"h">>),
      Some(<<"h", "/">>) }

\* the address the modelled instance is constructed with
InitArg == Some(Http \o <<"h", "/">>)

\* the state right after a successful construction with address arg and
\* voice vc
ConstructedWith(v, arg, vc) ==
    /\ variant = v
    /\ ctor_in = [arg |-> arg, env |-> None]
    /\ ctor_result = Construct(arg, None).result
    /\ server_url = Construct(arg, None).server_url
    /\ voice = vc
    /\ sample_rate = DefaultSampleRate(v)
    /\ websocket = 0
    /\ pc = "idle"
    /\ text = <<>>
    /\ ws_url = <<>>
    /\ myconn = 0
    /\ pending = "none"
    /\ events = <<>>
    /\ received = <<>>
    /\ run_result = "none"
    /\ conns = [c \in ConnIds |-> "unopened"]
    /\ inbox = [c \in ConnIds |-> <<>>]
    /\ nconn = 0
    /\ spc = "idle"
    /\ sconn = 0
    /\ skind = "stop"
    /\ stop_result = [outcome |-> "none", warned |-> FALSE]
    /\ stop_during = 0
    /\ vpc = "idle"
    /\ v_url = <<>>
    /\ v_in = NoAnswer
    /\ v_result = NoVoices
    /\ LauncherIdle

\* the same with the voice left to the constructor's choice of this model
Constructed(v, arg) == ConstructedWith(v, arg, <<"v", "1">>)

Init == \E v \in Variants : Constructed(v, InitArg)

Next ==
    \/ \E t \in Texts : RunTts(t)
    \/ ConnectOk
    \/ ConnectFail
    \/ ResumeLoop
    \/ RecvMessage
    \/ LoopEnd
    \/ LoopConnectionClosed
    \/ LoopFault
    \/ ResumeStopped
    \/ \E r \in BOOLEAN : AexitDone(r)
    \/ ResumeHandler
    \/ CancelTask
    \/ CloseGenerator
    \/ \E k \in {"stop", "cancel"} : LifecycleBegin(k)
    \/ \E r \in BOOLEAN : LifecycleCloseDone(r)
    \/ \E c \in ConnIds, m \in Messages : ServerSend(c, m)
    \/ \E c \in ConnIds, ok \in BOOLEAN : ServerClose(c, ok)
    \/ \E c \in ConnIds, ok \in BOOLEAN : CloseHandshakeDone(c, ok)

Spec == Init /\ [][Next]_vars

\* the same instance with the voice setters called at any point of its
\* run_tts calls, and with nobody calling stop or cancel
VoiceNext ==
    \/ \E t \in Texts : RunTts(t)
    \/ ConnectOk
    \/ ConnectFail
    \/ ResumeLoop
    \/ RecvMessage
    \/ LoopEnd
    \/ LoopConnectionClosed
    \/ LoopFault
    \/ ResumeStopped
    \/ \E r \in BOOLEAN : AexitDone(r)
    \/ ResumeHandler
    \/ CancelTask
    \/ CloseGenerator
    \/ \E c \in ConnIds, m \in Messages : ServerSend(c, m)
    \/ \E c \in ConnIds, ok \in BOOLEAN : ServerClose(c, ok)
    \/ \E c \in ConnIds, ok \in BOOLEAN : CloseHandshakeDone(c, ok)
    \/ \E v \in Voices : VoiceSetter(v)
    \/ \E v \in Voices : SetVoice(v)

VoiceSpec == Init /\ [][VoiceNext]_vars

\* the instance of Init whose caller keeps consuming frames: the consuming
\* task is never cancelled and the generator never abandoned
LiveNext ==
    \/ \E t \in Texts : RunTts(t)
    \/ ConnectOk
    \/ ConnectFail
    \/ ResumeLoop
    \/ RecvMessage
    \/ LoopEnd
    \/ LoopConnectionClosed
    \/ LoopFault
    \/ ResumeStopped
    \/ \E r \in BOOLEAN : AexitDone(r)
    \/ ResumeHandler
    \/ \E k \in {"stop", "cancel"} : LifecycleBegin(k)
    \/ \E r \in BOOLEAN : LifecycleCloseDone(r)
    \/ \E c \in ConnIds, m \in Messages : ServerSend(c, m)
    \/ \E c \in ConnIds, ok \in BOOLEAN : ServerClose(c, ok)
    \/ \E c \in ConnIds, ok \in BOOLEAN : CloseHandshakeDone(c, ok)

\* what the event loop and the network guarantee: a connect attempt ends
\* (open_timeout), an open stream ends or breaks, a closing handshake ends
\* (close_timeout), a runnable generator runs, and the caller asks for the
\* next frame
LiveFairness ==
    /\ WF_vars(ConnectOk \/ ConnectFail)
    /\ WF_vars(\E c \in ConnIds, ok \in BOOLEAN : ServerClose(c, ok))
    /\ WF_vars(\E c \in ConnIds, ok \in BOOLEAN : CloseHandshakeDone(c, ok))
    /\ WF_vars(RecvMessage)
    /\ WF_vars(LoopEnd)
    /\ WF_vars(LoopConnectionClosed)
    /\ WF_vars(\E r \in BOOLEAN : AexitDone(r))
    /\ WF_vars(ResumeLoop)
    /\ WF_vars(ResumeStopped)
    /\ WF_vars(ResumeHandler)

LiveSpec == Init /\ [][LiveNext]_vars /\ LiveFairness

\* the instance of Spec, with every stop/cancel that returns while a call is
\* connecting noted
RaceNext ==
    \/ \E t \in Texts : RunTts(t)
    \/ ConnectOk
    \/ ConnectFail
    \/ ResumeLoop
    \/ RecvMessage
    \/ LoopEnd
    \/ LoopConnectionClosed
    \/ LoopFault
    \/ ResumeStopped
    \/ \E r \in BOOLEAN : AexitDone(r)
    \/ ResumeHandler
    \/ CancelTask
    \/ CloseGenerator
    \/ \E k \in {"stop", "cancel"} : LifecycleBeginNoted(k)
    \/ \E r \in BOOLEAN : LifecycleCloseDone(r)
    \/ \E c \in ConnIds, m \in Messages : ServerSend(c, m)
    \/ \E c \in ConnIds, ok \in BOOLEAN : ServerClose(c, ok)
    \/ \E c \in ConnIds, ok \in BOOLEAN : CloseHandshakeDone(c, ok)

RaceSpec == Init /\ [][RaceNext]_vars

\* the instance of Init with only its voice listing called
VoicesNext ==
    \/ GetAvailableVoices
    \/ \E inp \in Answers : VoicesAnswer(inp)

\* instances of both classes over every address the constructor accepts
VoicesInit ==
    \E v \in Variants, arg \in UrlChoices :
        Construct(arg, None).result = "ok" /\ Constructed(v, arg)

VoicesSpec == VoicesInit /\ [][VoicesNext]_vars

\* texts of the calls whose target URL is examined
UrlTexts ==
    { <<>>, <<"h", "i">>, <<"a", " ", "b">>, <<"a", "&", "b", "=">> }

\* instances of both classes over every accepted address and every voice,
\* whose connection attempts are all refused
UrlInit ==
    \E v \in Variants, arg \in UrlChoices, vc \in Voices :
        Construct(arg, None).result = "ok" /\ ConstructedWith(v, arg, vc)

UrlNext ==
    \/ \E t \in UrlTexts : RunTts(t)
    \/ ConnectFail
    \/ ResumeHandler

UrlSpec == UrlInit /\ [][UrlNext]_vars

\* ------------------------------------------------- construction, as a step
\* no instance yet: nothing is configured and nothing has touched the network
CtorInit ==
    /\ variant = "Echo"
    /\ ctor_in = [arg |-> None, env |-> None]
    /\ ctor_result = "none"
    /\ server_url = <<>>
    /\ voice = <<>>
    /\ sample_rate = 0
    /\ websocket = 0
    /\ pc = "idle"
    /\ text = <<>>
    /\ ws_url = <<>>
    /\ myconn = 0
    /\ pending = "none"
    /\ events = <<>>
    /\ received = <<>>
    /\ run_result = "none"
    /\ conns = [c \in ConnIds |-> "unopened"]
    /\ inbox = [c \in ConnIds |-> <<>>]
    /\ nconn = 0
    /\ spc = "idle"
    /\ sconn = 0
    /\ skind = "stop"
    /\ stop_result = [outcome |-> "none", warned |-> FALSE]
    /\ stop_during = 0
    /\ vpc = "idle"
    /\ v_url = <<>>
    /\ v_in = NoAnswer
    /\ v_result = NoVoices
    /\ LauncherIdle

\* EchoTTSService(server_url=arg) / VibeVoiceTTSService(server_url=arg) with
\* the environment variable of the class holding env
ConstructAdapter(v, arg, env) ==
    /\ ctor_result = "none"
    /\ variant' = v
    /\ ctor_in' = [arg |-> arg, env |-> env]
    /\ ctor_result' = Construct(arg, env).result
    /\ server_url' = Construct(arg, env).server_url
    /\ IF Construct(arg, env).result = "ok"
       THEN /\ voice' = <<"v", "1">>
            /\ sample_rate' = DefaultSampleRate(v)
       ELSE UNCHANGED <<voice, sample_rate>>
    /\ UNCHANGED <<websocket, runv, netv, stopv, voicesv, launchv>>

CtorNext ==
    \E v \in Variants, arg \in UrlChoices, env \in UrlChoices :
        ConstructAdapter(v, arg, env)

CtorSpec == CtorInit /\ [][CtorNext]_vars

\* ------------------------------------------------------ the launcher, run
LaunchNext ==
    \/ \E nc \in BOOLEAN : StartServer(nc)
    \/ WaitServerPoll
    \/ ServerWaitReturns
    \/ \E ok \in BOOLEAN : StartTunnel(ok)
    \/ WaitTunnelPoll
    \/ MonitorPoll
    \/ KeyboardInterrupt
    \/ ReadServerLine
    \/ ReadTunnelLine
    \/ \E line \in ServerLines : ServerWrites(line)
    \/ \E line \in TunnelLines : TunnelWrites(line)
    \/ ServerExits
    \/ TunnelExits

\* one run of main, with no adapter constructed
LaunchSpec == CtorInit /\ [][LaunchNext]_vars

\* the monitoring loop's sleep(1) returns and the loop takes its next turn
LaunchFairness == WF_vars(MonitorPoll)

LaunchLiveSpec == LaunchSpec /\ LaunchFairness


\* ===================================================================
\* Properties of run_tts and of stop / cancel
\* ===================================================================
TypeIndices(seq, ty) == {i \in DOMAIN seq : seq[i].type = ty}

\* the text is empty or made of whitespace only
AllWhitespace(t) == \A i \in DOMAIN t : t[i] \in Whitespace

\* the last call was driven to its end by the caller and returned
Returned == pc = "idle" /\ run_result = "returned"

\* C1: a call with a non-blank text whose connection was opened and which the
\* caller drove to completion has emitted exactly one started frame, before
\* every audio frame, and exactly one stopped frame, as its last frame,
\* however the inbound stream ended.
C1_OneStartedOneStoppedLast ==
    (Returned /\ ~AllWhitespace(text) /\ myconn /= 0) =>
        /\ Cardinality(TypeIndices(events, "started")) = 1
        /\ \A i \in TypeIndices(events, "started") :
               \A j \in TypeIndices(events, "audio") : i < j
        /\ TypeIndices(events, "stopped") = {Len(events)}

\* a call that lost its connection abruptly after an audio chunk has returned
C1_Witness ==
    /\ Returned
    /\ myconn /= 0
    /\ conns[myconn] = "closed_err"
    /\ TypeIndices(events, "audio") /= {}
    /\ events[Len(events)].type = "stopped"

\* C2: the frames of a call are either none at all, and then the text was
\* blank, or a bracket that begins with started and ends with stopped; a
\* stopped frame is never emitted by a call that has not emitted started
\* before it, also when the connection could not be opened.
C2_WellFormedBracket ==
    /\ \A i \in TypeIndices(events, "stopped") :
           \E j \in TypeIndices(events, "started") : j < i
    /\ Returned =>
           IF events = <<>> THEN AllWhitespace(text)
           ELSE events[1].type = "started" /\ events[Len(events)].type = "stopped"

\* C3: a call with an empty or all-whitespace text emits no frame, opens no
\* connection, raises nothing and leaves the recorded connection and the
\* voice as they were.
C3_BlankCallIsNoOp ==
    [][\A t \in Texts :
          (AllWhitespace(t) /\ RunTts(t)) =>
              /\ events' = <<>>
              /\ pc' = "idle"
              /\ run_result' = "returned"
              /\ UNCHANGED <<websocket, voice, conns, inbox, nconn>>]_vars

\* a whitespace-only call has returned on an instance that had already
\* opened a connection in an earlier call
C3_Witness ==
    /\ Returned
    /\ text = <<"\t", " ">>
    /\ events = <<>>
    /\ nconn = 1
    /\ conns[1] /= "unopened"

IsBytes(m) == m.kind = "bytes"
IsAudio(e) == e.type = "audio"

\* C4: the audio frames of a call are, in order, the binary messages its
\* receive loop has taken: same count, the i-th frame carries the bytes of
\* the i-th binary message, the sample rate given at construction and one
\* channel; a textual message adds no frame.
C4_AudioIsBinaryMessages ==
    LET bin == SelectSeq(received, IsBytes)
        aud == SelectSeq(events, IsAudio)
    IN  /\ Len(aud) = Len(bin)
        /\ \A i \in DOMAIN aud :
               /\ aud[i].audio = bin[i].data
               /\ aud[i].sample_rate = DefaultSampleRate(variant)
               /\ aud[i].num_channels = 1
        /\ Len(events) <= Len(bin) + 2

\* a textual message and then a binary one have been taken by one call
C4_Witness ==
    /\ Len(received) = 2
    /\ received[1].kind = "str"
    /\ received[2].kind = "bytes"
    /\ TypeIndices(events, "audio") /= {}

\* a stop / cancel step that returns: the close it awaited has ended, or it
\* found no connection recorded
LifecycleReturns ==
    \/ \E r \in BOOLEAN : LifecycleCloseDone(r)
    \/ \E k \in {"stop", "cancel"} : LifecycleBegin(k) /\ spc' = "idle"

FaultHandled ==
    \/ ConnectFail
    \/ \E r \in BOOLEAN :
           /\ pending \in {"ConnectionClosed", "Exception"} \/ (r /\ pending = "CancelledError")
           /\ AexitDone(r)

\* C6: no fault of the connect or of the stream leaves run_tts as an
\* exception: the handler appends a stopped frame to the frames already
\* emitted and the call then returns.
C6_FaultsEndInStopped ==
    /\ [](run_result /= "raised")
    /\ [][FaultHandled =>
             /\ events' = Append(events, TTSStoppedFrame)
             /\ pc' = "yield_stopped_err"]_vars
    /\ [][pc = "yield_stopped_err" => pc' \in {"yield_stopped_err", "idle"}]_vars

\* a call that failed in the stream after an audio chunk has returned
C6_Witness ==
    /\ Returned
    /\ myconn /= 0
    /\ Len(events) = 3
    /\ events[2].type = "audio"
    /\ events[3].type = "stopped"
    /\ conns[myconn] = "closed_err"

\* the generator is in its receive loop
InReceiveLoop == pc \in {"recv", "yield_audio"}

\* C7: a stop or cancel that runs while a call is in its receive loop
\* closes the connection of that call.
C7_StopClosesStreamingConnection ==
    [][\A k \in {"stop", "cancel"} :
          (InReceiveLoop /\ LifecycleBegin(k)) => conns'[myconn] /= "open"]_vars

\* C8: stop and cancel alike: with a connection recorded they start its
\* close, and when the close has ended, returning or raising, the reference
\* is None, the connection is closed and the hook returns normally, a raised
\* close being logged; with no connection recorded they change nothing and
\* return normally.
C8_StopCancelCloseAndClear ==
    /\ [](stop_result.outcome /= "raised")
    /\ [][\A k \in {"stop", "cancel"} :
             LifecycleBegin(k) =>
                 IF websocket /= 0
                 THEN /\ spc' = "closing"
                      /\ sconn' = websocket
                      /\ conns'[websocket] /= "open"
                 ELSE /\ stop_result'.outcome = "ok"
                      /\ UNCHANGED <<websocket, conns, inbox, spc, runv>>]_vars
    /\ [][\A r \in BOOLEAN :
             LifecycleCloseDone(r) =>
                 /\ websocket' = 0
                 /\ conns'[sconn] \in {"closed_ok", "closed_err"}
                 /\ stop_result' = [outcome |-> "ok", warned |-> r]]_vars

\* a cancel whose close raised has returned
C8_Witness ==
    /\ spc = "idle"
    /\ skind = "cancel"
    /\ stop_result = [outcome |-> "ok", warned |-> TRUE]
    /\ websocket = 0

\* ===================================================================
\* Properties of the constructor
\* ===================================================================
\* the argument or variable holds a non-empty address
Provided(o) == o.some /\ o.val /= <<>>

\* C9: constructing with neither a non-empty server_url argument nor a
\* non-empty environment variable raises ValueError; no address is stored
\* in its place and nothing has touched the network.
C9_MissingAddressIsValueError ==
    (ctor_result /= "none" /\ ~Provided(ctor_in.arg) /\ ~Provided(ctor_in.env)) =>
        /\ ctor_result = "ValueError"
        /\ server_url = <<>>
        /\ nconn = 0
        /\ websocket = 0
        /\ \A c \in ConnIds : conns[c] = "unopened"

\* a construction with no argument and an empty environment variable failed
C9_Witness ==
    /\ ctor_result = "ValueError"
    /\ ctor_in = [arg |-> None, env |-> Some(<<>>)]

\* ===================================================================
\* Properties of get_available_voices
\* ===================================================================
\* the request raised, the status is not 200, the body is no JSON, or the
\* JSON is not an object
FailedListing(inp) ==
    \/ inp.fail
    \/ inp.status /= 200
    \/ ~inp.parses
    \/ inp.body.t /= "obj"

\* C10: get_available_voices never raises, and gives the empty list for
\* every status other than 200 and for every exception of the request or of
\* the parsing (a body that is no JSON, a JSON that is no object).
C10_VoicesNeverRaises ==
    (vpc = "idle" /\ v_result.outcome /= "none") =>
        /\ v_result.outcome = "returned"
        /\ FailedListing(v_in) => v_result.value = JList(<<>>)

\* a status 200 whose body is not JSON has been answered with []
C10_Witness ==
    /\ vpc = "idle"
    /\ v_in.status = 200
    /\ ~v_in.parses
    /\ v_result = [outcome |-> "returned", value |-> JList(<<>>)]

\* object o has a member called key
HasKey(o, key) == \E i \in DOMAIN o.o : o.o[i][1] = key

\* the value of the member of o called key
Member(o, key) == o.o[CHOOSE i \in DOMAIN o.o : o.o[i][1] = key][2]

\* the identifier of one item of Echo's list
ItemId(item) ==
    IF HasKey(item, "id") THEN Member(item, "id")
    ELSE IF HasKey(item, "name") THEN Member(item, "name")
    ELSE JStr(<<>>)

\* the endpoint answered 200 with a JSON object
GoodListing(inp) == ~inp.fail /\ inp.status = 200 /\ inp.parses /\ inp.body.t = "obj"

\* the call has ended
Listed == vpc = "idle" /\ v_result.outcome /= "none"

\* C16: on status 200 Echo gives, for each object of the body's "data" list
\* in order, its "id", else its "name", else the empty string; VibeVoice
\* gives the body's "voices" value unchanged; a body without the field
\* gives the empty list.
C16_VoicesFromFieldPath ==
    (Listed /\ GoodListing(v_in)) =>
        LET body == v_in.body
            key == IF variant = "Echo" THEN "data" ELSE "voices"
        IN  /\ ~HasKey(body, key) => v_result.value = JList(<<>>)
            /\ (variant = "VibeVoice" /\ HasKey(body, key)) =>
                   v_result.value = Member(body, key)
            /\ (variant = "Echo" /\ HasKey(body, key)
                   /\ Member(body, key).t = "list"
                   /\ \A i \in DOMAIN Member(body, key).l :
                          Member(body, key).l[i].t = "obj") =>
                   LET items == Member(body, key).l
                   IN  /\ v_result.value.t = "list"
                       /\ Len(v_result.value.l) = Len(items)
                       /\ \A i \in DOMAIN items :
                              v_result.value.l[i] = ItemId(items[i])

\* Echo listed an item by its id, one by its name and one without either
C16_Witness ==
    /\ Listed /\ GoodListing(v_in)
    /\ variant = "Echo"
    /\ v_result.value = JList(<<VA, VB, JStr(<<>>)>>)

\* ===================================================================
\* Properties of the target URL
\* ===================================================================
\* the positions of u at which pat begins
Occurrences(u, pat) ==
    {i \in 1..(Len(u) - Len(pat) + 1) : SubSeq(u, i, i + Len(pat) - 1) = pat}

Min(S) == CHOOSE i \in S : \A j \in S : i <= j

\* the part of a target URL in front of its first "/stream?"
BeforeStream(u) == SubSeq(u, 1, Min(Occurrences(u, StreamPath)) - 1)

\* the part of a target URL behind its first "/stream?"
AfterStream(u) ==
    SubSeq(u, Min(Occurrences(u, StreamPath)) + Len(StreamPath), Len(u))

\* a run_tts call of this instance has built its target URL
UrlBuilt == ws_url /= <<>> /\ ~IsBlank(text)

\* C11: the scheme rewriting of the stored base address is total and
\* idempotent: http:// becomes ws://, https:// becomes wss://, an address
\* with ws:// or wss:// is unchanged, every other address gets ws:// in
\* front, and rewriting the rewritten address changes nothing.
C11_SchemeRewriting ==
    UrlBuilt =>
        LET b == server_url
            r == BeforeStream(ws_url)
        IN  /\ Occurrences(ws_url, StreamPath) /= {}
            /\ StartsWith(b, Http) => r = Ws \o SubSeq(b, 8, Len(b))
            /\ StartsWith(b, Https) => r = Wss \o SubSeq(b, 9, Len(b))
            /\ (StartsWith(b, Ws) \/ StartsWith(b, Wss)) => r = b
            /\ ~(StartsWith(b, Http) \/ StartsWith(b, Https)
                    \/ StartsWith(b, Ws) \/ StartsWith(b, Wss)) => r = Ws \o b
            /\ StartsWith(r, Ws) \/ StartsWith(r, Wss)
            /\ WsBase(r) = r

\* a call on an instance whose address came with wss:// kept that scheme
C11_Witness ==
    /\ UrlBuilt
    /\ server_url = Wss \o <<"h">>
    /\ BeforeStream(ws_url) = Wss \o <<"h">>

\* b is the address a without its trailing slashes
TrailingSlashesRemoved(a, b) ==
    /\ Len(b) <= Len(a)
    /\ SubSeq(a, 1, Len(b)) = b
    /\ \A i \in (Len(b) + 1)..Len(a) : a[i] = "/"
    /\ Len(b) > 0 => b[Len(b)] /= "/"

\* the ws:// or wss:// form of a base address
SchemeRewritten(b) ==
    CASE StartsWith(b, Http) -> Ws \o SubSeq(b, Len(Http) + 1, Len(b))
      [] StartsWith(b, Https) -> Wss \o SubSeq(b, Len(Https) + 1, Len(b))
      [] StartsWith(b, Ws) \/ StartsWith(b, Wss) -> b
      [] OTHER -> Ws \o b

\* the guidance fields as they stand at the end of the query
GuidanceQuery ==
    IF variant = "Echo"
    THEN <<"&","c","f","g","_","s","c","a","l","e","_","t","e","x","t","=","2",".","5",
           "&","c","f","g","_","s","c","a","l","e","_","s","p","e","a","k","e","r","=","5",".","0",
           "&","s","e","e","d","=","0">>
    ELSE <<"&","c","f","g","=","1",".","5","&","s","t","e","p","s","=","5">>

\* C12: the target URL of a call is the scheme-rewritten form of the base
\* address without its trailing slashes, then "/stream?", then the fields
\* text, voice and the guidance fields of the backend, in that order.
C12_TargetUrlLayout ==
    UrlBuilt =>
        /\ TrailingSlashesRemoved(ctor_in.arg.val, server_url)
        /\ ws_url = SchemeRewritten(server_url)
                        \o <<"/","s","t","r","e","a","m","?">>
                        \o <<"t","e","x","t","=">> \o QuotePlus(text)
                        \o <<"&","v","o","i","c","e","=">> \o QuotePlus(voice)
                        \o GuidanceQuery

\* base http://h/, voice v1 and text hi gave ws://h/stream?text=hi&voice=v1&...
C12_Witness ==
    /\ UrlBuilt
    /\ ctor_in.arg = Some(Http \o <<"h", "/">>)
    /\ text = <<"h", "i">>
    /\ voice = <<"v", "1">>
    /\ StartsWith(ws_url, <<"w","s",":","/","/","h","/","s","t","r","e","a","m","?",
                             "t","e","x","t","=","h","i","&",
                             "v","o","i","c","e","=","v","1","&">>)

\* this step is a run_tts call building its target URL
BuildsUrl == pc = "idle" /\ pc' = "connecting"

VoiceField == <<"&", "v", "o", "i", "c", "e", "=">>

\* the value of the voice field of a target URL, as encoded
UrlVoice(u) ==
    LET from == Min(Occurrences(u, VoiceField)) + Len(VoiceField)
        rest == SubSeq(u, from, Len(u))
        stop == Min({i \in 1..Len(rest) : rest[i] = "&"} \cup {Len(rest) + 1})
    IN  SubSeq(rest, 1, stop - 1)

\* a run_tts call is in flight
InFlight == pc /= "idle"

\* C14: a call that begins encodes the voice the last setter left, and no
\* step taken while a call is in flight (a setter call among them) changes
\* the target URL of that call.
C14_VoiceFixedAtCallStart ==
    [][/\ BuildsUrl => (voice' = voice /\ UrlVoice(ws_url') = QuotePlus(voice))
       /\ (InFlight /\ InFlight') => ws_url' = ws_url
       /\ voice' /= voice => UNCHANGED <<runv, websocket, netv>>]_vars

\* the voice was replaced while a call streams: the call still asks for v1,
\* the instance holds v2
C14_Witness ==
    /\ pc = "yield_audio"
    /\ voice = <<"v", "2">>
    /\ UrlVoice(ws_url) = <<"v", "1">>

\* ===================================================================
\* Properties of the connections of one instance
\* ===================================================================
LiveConnections == {c \in ConnIds : Live(c)}

Phase ==
    CASE pc = "idle" -> "idle"
      [] pc = "connecting" -> "connecting"
      [] pc \in {"yield_started", "recv", "yield_audio"} -> "streaming"
      [] pc = "yield_stopped" -> "closed_normally"
      [] pc \in {"aexit", "aexit_closing"} ->
            IF pending = "none" THEN "closed_normally" ELSE "closed_on_error"
      [] OTHER -> "closed_on_error"

PhaseOrder ==
    { <<"idle", "connecting">>,
      <<"connecting", "streaming">>,
      <<"connecting", "closed_on_error">>,
      <<"streaming", "closed_normally">>,
      <<"streaming", "closed_on_error">>,
      <<"closed_normally", "idle">>,
      <<"closed_on_error", "idle">> }

\* C17: a call goes idle, connecting, streaming, then closed normally or
\* closed on error, a failed connect going straight to closed on error; and
\* a call that left idle is back at idle, with the connection reference
\* cleared, in the end.
C17_CallLifeCycle ==
    /\ [][Phase' /= Phase => <<Phase, Phase'>> \in PhaseOrder]_vars
    /\ (pc /= "idle") ~> (pc = "idle" /\ websocket = 0)

\* a call that streamed audio has ended and left no reference
C17_Witness ==
    /\ pc = "idle"
    /\ run_result = "returned"
    /\ websocket = 0
    /\ TypeIndices(events, "started") /= {}
    /\ TypeIndices(events, "audio") /= {}
    /\ events[Len(events)].type = "stopped"

\* ===================================================================
\* Recording of the connection
\* ===================================================================
\* the caller has received started and the call has not ended
Streaming == pc \in {"yield_started", "recv", "yield_audio"}

\* a stop or cancel issued during this call is closing its connection
StopUnderWay == spc = "closing" /\ sconn = myconn

\* C18: the connection is recorded when started is emitted, and from then
\* on, until a stop or cancel is issued or the call ends, the recorded
\* reference is the connection of the call.
C18_RecordedWhileStreaming ==
    [][/\ (pc = "connecting" /\ Streaming') => (myconn' /= 0 /\ websocket' = myconn')
       /\ (Streaming /\ Streaming' /\ websocket = myconn /\ ~StopUnderWay) =>
              websocket' = myconn]_vars

\* ===================================================================
\* Streaming
\* ===================================================================
\* the binary messages among the messages taken so far
BytesTaken == {i \in DOMAIN received : IsBytes(received[i])}

\* this step takes a message from the connection
TakesMessage == Len(received') > Len(received)

\* C19: when the call takes a message, the chunk of every binary message
\* taken before has been handed to the caller; and a binary message just
\* taken is handed over as an audio frame in that step, the generator
\* waiting at the yield: at most one message is ever taken and not handed on.
C19_ChunkHandedOverBeforeNextRead ==
    /\ [](Cardinality(BytesTaken) = Cardinality(TypeIndices(events, "audio")))
    /\ [][TakesMessage =>
            /\ pc = "recv"
            /\ Cardinality(BytesTaken) = Cardinality(TypeIndices(events, "audio"))
            /\ LET m == received'[Len(received')]
               IN  IsBytes(m) =>
                      /\ pc' = "yield_audio"
                      /\ Len(events') = Len(events) + 1
                      /\ events'[Len(events')].type = "audio"
                      /\ events'[Len(events')].audio = m.data]_vars

\* two chunks were handed over while the server has not ended the stream
C19_Witness ==
    /\ pc = "yield_audio"
    /\ Cardinality(TypeIndices(events, "audio")) >= 2
    /\ conns[myconn] = "open"

\* ===================================================================
\* The address of the voice listing
\* ===================================================================
\* the http:// or https:// form of a base address; an address without a
\* scheme stands for ws://<address>
PlainScheme(b) ==
    CASE StartsWith(b, Ws) -> Http \o SubSeq(b, Len(Ws) + 1, Len(b))
      [] StartsWith(b, Wss) -> Https \o SubSeq(b, Len(Wss) + 1, Len(b))
      [] StartsWith(b, Http) \/ StartsWith(b, Https) -> b
      [] OTHER -> Http \o b

\* C20: for every accepted base address the voice listing requests an
\* http:// or https:// address: the base address with ws:// turned into
\* http:// and wss:// into https://, an address without a scheme counting
\* as ws://<address>, followed by the metadata path of the backend.
C20_ListingAddressIsPlainHttp ==
    vpc = "requesting" =>
        /\ StartsWith(v_url, Http) \/ StartsWith(v_url, Https)
        /\ v_url = PlainScheme(server_url) \o VoicesPath(variant)

\* ===================================================================
\* Properties of the launcher
\* ===================================================================
\* u is https://<label>.trycloudflare.com with a label of one or more
\* lowercase letters, digits and hyphens
IsTunnelUrl(u) ==
    LET n == Len(u) - Len(Https) - Len(TryCloudflare)
    IN  /\ n >= 1
        /\ SubSeq(u, 1, Len(Https)) = Https
        /\ SubSeq(u, Len(u) - Len(TryCloudflare) + 1, Len(u)) = TryCloudflare
        /\ \A i \in (Len(Https) + 1)..(Len(Https) + n) : u[i] \in LabelChars

\* u is a part of line
PartOf(u, line) ==
    \E i \in 1..Len(line) : i + Len(u) - 1 <= Len(line) /\ SubSeq(line, i, i + Len(u) - 1) = u

\* some part of line is a tunnel address
HasTunnelUrl(line) ==
    \E i \in {x \in DOMAIN line : line[x] = "h"}, j \in {y \in DOMAIN line : line[y] = "m"} :
        IsTunnelUrl(SubSeq(line, i, j))

\* C21: the server is marked ready only once a line with "Uvicorn running
\* on" or "Application startup complete" has been read, and stays marked;
\* the public URL is only ever a part of a tunnel line read that has the
\* form https://<label>.trycloudflare.com, and is unset while no line with
\* such a part has been read.
C21_ReadyAndUrlFromOutput ==
    /\ [](server_ready =>
            \E i \in DOMAIN server_seen :
                \/ Contains(server_seen[i], UvicornRunning)
                \/ Contains(server_seen[i], StartupComplete))
    /\ [][server_ready => server_ready']_vars
    /\ [](public_url /= <<>> =>
            /\ IsTunnelUrl(public_url)
            /\ \E i \in DOMAIN tunnel_seen : PartOf(public_url, tunnel_seen[i]))
    /\ []((\A i \in DOMAIN tunnel_seen : ~HasTunnelUrl(tunnel_seen[i])) => public_url = <<>>)

\* the server is marked ready and the tunnel gave https://c9.trycloudflare.com
\* after a line without an address
C21_Witness ==
    /\ server_ready
    /\ Len(tunnel_seen) = 2
    /\ ~HasTunnelUrl(tunnel_seen[1])
    /\ public_url = SubSeq(tunnel_seen[2], 9, 36)
    /\ IsTunnelUrl(public_url)

\* ===================================================================
\* Stop and cancel against a call in flight
\* ===================================================================
\* C22: once a stop or cancel has returned while a call was connecting, the
\* connection of that call is never opened and the call hands no audio
\* frame to its caller.
C22_StopWhileConnectingEndsCall ==
    stop_during /= 0 =>
        /\ conns[stop_during] = "unopened"
        /\ nconn = stop_during => TypeIndices(events, "audio") = {}

\* a stop or cancel returns from the close it awaited
StopCompletes == spc = "closing" /\ spc' = "idle"

\* C23: a stop or cancel that completes clears only the connection it
\* closed: a live connection that a newer call has recorded in the meantime
\* is still recorded afterwards.
C23_StopClearsOnlyItsOwn ==
    [][(StopCompletes /\ websocket /= 0 /\ websocket /= sconn /\ Live(websocket)) =>
          websocket' = websocket]_vars

\* ===================================================================
\* The stored base address
\* ===================================================================
\* C24: after a successful construction the stored base address is not
\* empty and does not end with a slash, whatever accepted address it was
\* made from.
C24_StoredAddressWellFormed ==
    ctor_result = "ok" =>
        /\ Len(server_url) > 0
        /\ server_url[Len(server_url)] /= "/"

\* ===================================================================
\* The launcher's subprocesses at its exit
\* ===================================================================
\* a subprocess that was started, has not exited and was not sent terminate
LeftRunning(proc, term) == proc = "running" /\ ~term

\* C25: when the launcher has exited, by whichever path, no subprocess it
\* started is still running without having been sent terminate.
C25_ExitLeavesNothingRunning ==
    lpc = "exited" =>
        /\ ~LeftRunning(server_proc, server_term)
        /\ ~LeftRunning(tunnel_proc, tunnel_term)

\* ===================================================================
\* The monitoring loop
\* ===================================================================
\* the step on which the monitoring loop ends
MonitorEnds == lpc = "monitor" /\ lpc' = "exited"

\* one of the two subprocesses has exited while the loop runs
SawExit == lpc = "monitor" /\ (server_proc = "exited" \/ tunnel_proc = "exited")

\* C26: the monitoring loop ends only at a keyboard interrupt, with both
\* subprocesses sent terminate, or when a subprocess has exited, with the
\* other one sent terminate; it sends no terminate while it goes on; and
\* once a subprocess has exited the loop does end.
C26_MonitorLoop ==
    /\ [][MonitorEnds =>
             /\ exit_how' = "return"
             /\ \/ interrupted' /= interrupted /\ server_term' /\ tunnel_term'
                \/ server_proc = "exited" /\ tunnel_term'
                \/ tunnel_proc = "exited" /\ server_term']_vars
    /\ [][(lpc = "monitor" /\ lpc' = "monitor") =>
             UNCHANGED <<server_term, tunnel_term>>]_vars
    /\ (SawExit ~> lpc = "exited")

\* the loop ended at a turn that found the server exited
C26_Witness ==
    /\ lpc = "exited"
    /\ exit_how = "return"
    /\ ~interrupted
    /\ tunnel_proc = "running"
    /\ tunnel_term
    /\ server_proc = "exited"
====
